---- MODULE Spec2Model ----
(***************************************************************************)
(* Model of minitorch/datasets.py: the point sampler make_pts, the six     *)
(* dataset generators (simple, diag, split, xor, circle, spiral), the      *)
(* Graph value they return and the module-level registry `datasets`.       *)
(*                                                                         *)
(* Numbers.  A sampled coordinate is a value of random.random(), a float   *)
(* in [0, 1).  It is modelled by an integer number of tenths, so 0.5 is 5  *)
(* and 0.2 is 2; a product of two coordinates is then in hundredths, so    *)
(* the circle threshold 0.1 is 10.  Comparisons are exact on that grid:    *)
(* the model decides which side of a threshold a computed value falls on,  *)
(* not how binary floating point rounds a decimal literal (the doubles     *)
(* nearest 0.8 and 0.6 give 0.10000000000000002 in circle, not 0.1).       *)
(* A spiral coordinate t*cos(t)/20 + 0.5 cannot be computed on integers    *)
(* and is kept as the term the code evaluates (function, sign, i, half).   *)
(***************************************************************************)
EXTENDS Integers, Sequences, FiniteSets, TLC

\* ---------------------------------------------------------------- bounds
\* Largest N a sampled generator is called with.
MaxN == 2
\* Largest N spiral is called with.
MaxSpiralN == 11
\* The random source is read at most this many times in one behaviour.
MaxDraws == 2 * MaxN

\* ------------------------------------------------------ program constants
\* 0.5, in tenths (simple, xor, and the centre shift of circle).
Half == 5
\* 0.2 and 0.8, in tenths (split).
SplitLo == 2
SplitHi == 8
\* 0.1, in hundredths (circle).
CircleR2 == 10
\* range(5 + 0, 5 + N // 2): the first index of a spiral arm.
SpiralStart == 5
\* 10.0 and -10.0: the factor of i / (N // 2) in a spiral arm.
SpiralScale == 10

\* Values random.random() returns in the model: below, on and above each
\* threshold, and the pairs (2,6), (8,6), (6,2), (6,8) on the circle.
Coord == {0, 2, 5, 6, 8}

\* Python's range(a, b) as a sequence (empty when b <= a).
range(a, b) == [k \in 1..(b - a) |-> a + k - 1]

\* Python's [v] * n (empty when n <= 0).
repeat(v, n) == [k \in 1..n |-> v]

\* ------------------------------------------------------------- make_pts
\* (x_1, x_2) as appended at line 23.
pt_swapped(x_1, x_2) == <<x_2, x_1>>
pt(x_1, x_2) == <<x_1, x_2>>

\* The loop of make_pts: iteration i reads the random source twice, x_1
\* first, and appends the point.  tape is what the source returns to this
\* call, in the order it is read.
RECURSIVE make_pts_loop(_, _, _, _)
make_pts_loop(idx, k, tape, X) ==
  IF k > Len(idx) THEN X
  ELSE LET x_1 == tape[2 * k - 1]
           x_2 == tape[2 * k]
       IN  make_pts_loop(idx, k + 1, tape, Append(X, pt(x_1, x_2)))

make_pts_short(N, tape) == make_pts_loop(range(1, N), 1, tape, <<>>)
make_pts(N, tape) == make_pts_loop(range(0, N), 1, tape, <<>>)

\* How many times a call of generator gen with N reads the random source:
\* two per iteration of range(N) in make_pts, none in spiral.
RandomCallsRelabel(gen, N) ==
  IF gen = "spiral" \/ N <= 0 THEN 0 ELSE 3 * N
RandomCalls(gen, N) ==
  IF gen = "spiral" \/ N <= 0 THEN 0 ELSE 2 * N

\* ---------------------------------------------------------------- Graph
Graph(N, X, y) == [N |-> N, X |-> X, y |-> y]

\* What a call does: it returns a value or raises.  alloc names the list
\* objects the call created, writes the list objects it appended to.
Return(g, alloc, writes) ==
  [outcome |-> "returned", err |-> "", g |-> g, alloc |-> alloc, writes |-> writes]
Raise(err) ==
  [outcome |-> "raised", err |-> err, g |-> Graph(0, <<>>, <<>>),
   alloc |-> {}, writes |-> {}]

\* ------------------------------------------------------ labelling rules
simple_y1(x_1, x_2) == IF x_1 < Half THEN 1 ELSE 0

diag_y1(x_1, x_2) == IF x_1 < x_2 THEN 1 ELSE 0

split_y1(x_1, x_2) == IF x_1 < SplitLo \/ x_1 > SplitHi THEN 1 ELSE 0

xor_y1_halves(x_1, x_2) ==
  IF (x_1 < Half) # (x_2 < Half) THEN 1 ELSE 0
xor_y1(x_1, x_2) ==
  IF (x_1 < Half /\ x_2 > Half) \/ (x_1 > Half /\ x_2 < Half) THEN 1 ELSE 0

circle_y1(x_1, x_2) ==
  LET x1 == x_1 - Half
      x2 == x_2 - Half
  IN  IF x1 * x1 + x2 * x2 > CircleR2 THEN 1 ELSE 0

y1(gen, x_1, x_2) ==
  CASE gen = "simple" -> simple_y1(x_1, x_2)
    [] gen = "diag"   -> diag_y1(x_1, x_2)
    [] gen = "split"  -> split_y1(x_1, x_2)
    [] gen = "xor"    -> xor_y1(x_1, x_2)
    [] gen = "circle" -> circle_y1(x_1, x_2)

\* y.append(y1)
y_prepend(y, v) == <<v>> \o y
y_append(y, v) == Append(y, v)

\* for x_1, x_2 in X: y.append(y1)
RECURSIVE label_loop(_, _, _)
label_loop(gen, X, y) ==
  IF X = <<>> THEN y
  ELSE label_loop(gen, Tail(X), y_append(y, y1(gen, Head(X)[1], Head(X)[2])))

\* simple, diag, split, xor and circle: X = make_pts(N); y = []; the loop;
\* return Graph(N, X, y).
sampled(gen, N, tape) ==
  LET X == make_pts(N, tape)
      y == label_loop(gen, X, <<>>)
  IN  Return(Graph(N, X, y), {"X", "y"},
             (IF X = <<>> THEN {} ELSE {"X"}) \cup (IF y = <<>> THEN {} ELSE {"y"}))

\* --------------------------------------------------------------- spiral
\* x(t) + 0.5 and y(t) + 0.5 at t = sign * 10.0 * (float(i) / half).
term(fn, sign, i, half) ==
  [fn |-> fn, t_num |-> sign * SpiralScale * i, t_den |-> half]

spiral_range_from0(N) == range(0, SpiralStart + N \div 2)
spiral_range(N) == range(SpiralStart + 0, SpiralStart + N \div 2)

spiral_y2_rest(N) == repeat(0, N \div 2) \o repeat(1, N - N \div 2)
spiral_y2(N) == repeat(0, N \div 2) \o repeat(1, N \div 2)

spiral(N) ==
  LET half == N \div 2
      idx  == spiral_range(N)
      armA == [k \in 1..Len(idx) |->
                 <<term("x", 1, idx[k], half), term("y", 1, idx[k], half)>>]
      armB == [k \in 1..Len(idx) |->
                 <<term("y", -1, idx[k], half), term("x", -1, idx[k], half)>>]
  IN  IF idx # <<>> /\ half = 0
      THEN Raise("ZeroDivisionError")
      ELSE Return(Graph(N, armA \o armB, spiral_y2(N)), {"X", "y2"}, {})

\* ------------------------------------------------------------- registry
Generators == {"simple", "diag", "split", "xor", "circle", "spiral"}
Sampled == Generators \ {"spiral"}

datasets_swapped ==
  [name \in {"Simple", "Diag", "Split", "Xor", "Circle", "Spiral"} |->
     CASE name = "Simple" -> "simple"
       [] name = "Diag"   -> "diag"
       [] name = "Split"  -> "split"
       [] name = "Xor"    -> "circle"
       [] name = "Circle" -> "xor"
       [] name = "Spiral" -> "spiral"]
datasets ==
  [name \in {"Simple", "Diag", "Split", "Xor", "Circle", "Spiral"} |->
     CASE name = "Simple" -> "simple"
       [] name = "Diag"   -> "diag"
       [] name = "Split"  -> "split"
       [] name = "Xor"    -> "xor"
       [] name = "Circle" -> "circle"
       [] name = "Spiral" -> "spiral"]

\* datasets[name]: a dict subscript raises KeyError on a missing key.
getitem(d, name) ==
  IF name \in DOMAIN d
  THEN [outcome |-> "returned", err |-> "", val |-> d[name]]
  ELSE [outcome |-> "raised", err |-> "KeyError", val |-> ""]

\* Names a caller looks up.
Names == {"Simple", "Diag", "Split", "Xor", "Circle", "Spiral",
          "Unknown", "simple", "SPIRAL", ""}

\* ---------------------------------------------------------------- state
VARIABLES
  rng,       \* how many values the process-wide random source has returned
  registry,  \* the module-level dict `datasets`
  last       \* the last operation: its arguments and what it did

vars == <<rng, registry, last>>

NoGraph == Graph(0, <<>>, <<>>)

Init ==
  /\ rng = 0
  /\ registry = datasets
  /\ last = [op |-> "none", gen |-> "", N |-> 0, name |-> "", outcome |-> "none",
             err |-> "", val |-> "", g |-> NoGraph, drawn |-> <<>>,
             alloc |-> {}, writes |-> {}]

\* A call gen(N); tape is what random.random() returns during the call.
Generate(gen, N, tape) ==
  IF gen = "spiral" THEN spiral(N) ELSE sampled(gen, N, tape)

Call(gen, N) ==
  /\ rng + RandomCalls(gen, N) <= MaxDraws
  /\ \E tape \in [1..RandomCalls(gen, N) -> Coord] :
       \E r \in {Generate(gen, N, tape)} :
         /\ last' = [op |-> "call", gen |-> gen, N |-> N, name |-> "",
                     outcome |-> r.outcome, err |-> r.err, val |-> "",
                     g |-> r.g, drawn |-> tape,
                     alloc |-> r.alloc, writes |-> r.writes]
         /\ rng' = rng + Len(tape)
  /\ UNCHANGED registry

CallSampled ==
  \E gen \in Sampled : \E N \in -1..MaxN : Call(gen, N)

CallSpiral ==
  \E N \in -2..MaxSpiralN : Call("spiral", N)

\* datasets[name]
Lookup ==
  \E name \in Names :
    \E r \in {getitem(registry, name)} :
      /\ last' = [op |-> "lookup", gen |-> "", N |-> 0, name |-> name,
                  outcome |-> r.outcome, err |-> r.err, val |-> r.val,
                  g |-> NoGraph, drawn |-> <<>>, alloc |-> {}, writes |-> {}]
      /\ UNCHANGED <<rng, registry>>

Next == CallSampled \/ CallSpiral \/ Lookup

Spec == Init /\ [][Next]_vars

\* ================================================================ claims
Returned == last.op = "call" /\ last.outcome = "returned"
SampledCall == last.op = "call" /\ last.gen \in Sampled
SpiralCall == last.op = "call" /\ last.gen = "spiral"

\* C1: for every N >= 0 and every rule in {simple, diag, split, xor, circle}
\* the returned dataset has exactly N points and exactly N labels, and every
\* label is 0 or 1.
C1_SizeAndLabels ==
  (SampledCall /\ last.N >= 0) =>
    /\ last.outcome = "returned"
    /\ Len(last.g.X) = last.N
    /\ Len(last.g.y) = last.N
    /\ \A i \in 1..Len(last.g.y) : last.g.y[i] \in {0, 1}

C1_Witness ==
  /\ SampledCall /\ Returned /\ last.gen = "circle" /\ last.N = 2
  /\ Len(last.g.X) = 2
  /\ last.g.y = <<1, 0>>

C3_NegativeNFails ==
  (last.op = "call" /\ last.N < 0) =>
    (last.outcome = "raised" /\ last.err = "ValueError")

\* C4: for N = 0 each of the six generators returns normally with 0 points
\* and 0 labels; spiral raises no division by zero on N // 2.
C4_EmptyDataset ==
  (last.op = "call" /\ last.N = 0) =>
    /\ last.outcome = "returned"
    /\ last.err # "ZeroDivisionError"
    /\ last.g.X = <<>>
    /\ last.g.y = <<>>

C4_Witness ==
  /\ SpiralCall /\ Returned /\ last.N = 0
  /\ last.g.X = <<>> /\ last.g.y = <<>>

\* The rules as the specification's table states them, on tenths.
RulePredicate(gen, p) ==
  CASE gen = "simple" -> p[1] < 5
    [] gen = "diag"   -> p[1] < p[2]
    [] gen = "split"  -> p[1] < 2 \/ p[1] > 8
    [] gen = "xor"    -> (p[1] < 5 /\ p[2] > 5) \/ (p[1] > 5 /\ p[2] < 5)
    [] gen = "circle" -> (p[1] - 5) * (p[1] - 5) + (p[2] - 5) * (p[2] - 5) > 10

SixNames == {"Simple", "Diag", "Split", "Xor", "Circle", "Spiral"}

\* C6: the registry maps exactly the six names Simple, Diag, Split, Xor,
\* Circle, Spiral, each to its own generator; a lookup of any other name
\* fails with a not-found error and returns no generator.
C6_Registry ==
  /\ DOMAIN registry = SixNames
  /\ registry["Simple"] = "simple" /\ registry["Diag"] = "diag"
  /\ registry["Split"] = "split" /\ registry["Xor"] = "xor"
  /\ registry["Circle"] = "circle" /\ registry["Spiral"] = "spiral"
  /\ (last.op = "lookup") =>
       IF last.name \in SixNames
       THEN last.outcome = "returned" /\ last.val \in Generators
       ELSE last.outcome = "raised" /\ last.err = "KeyError" /\ last.val = ""

C6_Witness ==
  /\ last.op = "lookup" /\ last.name = "simple"
  /\ last.outcome = "raised" /\ last.err = "KeyError"

\* The dataset spiral(N) as a function of N alone.
SpiralOf(N) ==
  LET h == IF N \div 2 > 0 THEN N \div 2 ELSE 0
  IN  [N |-> N,
       X |-> [k \in 1..(2 * h) |->
                IF k <= h
                THEN <<[fn |-> "x", t_num |-> 10 * (k + 4), t_den |-> h],
                       [fn |-> "y", t_num |-> 10 * (k + 4), t_den |-> h]>>
                ELSE <<[fn |-> "y", t_num |-> -10 * (k - h + 4), t_den |-> h],
                       [fn |-> "x", t_num |-> -10 * (k - h + 4), t_den |-> h]>>],
       y |-> [k \in 1..(2 * h) |-> IF k <= h THEN 0 ELSE 1]]

\* C7: a generator call changes no state but the random source; simple,
\* diag, split, xor and circle with N >= 0 read it exactly 2*N times, x1
\* then x2 for each point in point order; spiral reads it never and its
\* dataset depends on N alone; a call appends only to lists it created.
C7_Step ==
  (last'.op = "call") =>
    /\ registry' = registry
    /\ (last'.gen \in Sampled /\ last'.N >= 0) =>
         /\ rng' = rng + 2 * last'.N
         /\ Len(last'.drawn) = 2 * last'.N
         /\ \A i \in 1..Len(last'.g.X) :
              /\ last'.g.X[i][1] = last'.drawn[2 * i - 1]
              /\ last'.g.X[i][2] = last'.drawn[2 * i]
    /\ (last'.gen = "spiral") =>
         /\ rng' = rng
         /\ last'.drawn = <<>>
         /\ (last'.outcome = "returned") => last'.g = SpiralOf(last'.N)
    /\ last'.writes \subseteq last'.alloc

C7_Frame == [][C7_Step]_vars

C7_Witness ==
  /\ SpiralCall /\ Returned /\ last.N = 4 /\ rng = 4
  /\ last.g = SpiralOf(4)

\* C8: for every dataset of simple, diag, split, xor or circle the points
\* are the sampler's output, unmodified and in sampling order, and both
\* coordinates of every point lie in [0, 1).
C8_PointsAreSamples ==
  (SampledCall /\ Returned) =>
    /\ 2 * Len(last.g.X) = Len(last.drawn)
    /\ \A i \in 1..Len(last.g.X) :
         /\ last.g.X[i] = <<last.drawn[2 * i - 1], last.drawn[2 * i]>>
         /\ 0 <= last.g.X[i][1] /\ last.g.X[i][1] < 10
         /\ 0 <= last.g.X[i][2] /\ last.g.X[i][2] < 10

C8_Witness ==
  /\ SampledCall /\ Returned /\ last.gen = "diag"
  /\ last.drawn = <<0, 2, 8, 5>>
  /\ last.g.X = <<<<0, 2>>, <<8, 5>>>>

\* A point on the decision boundary of a rule.
OnBoundary(gen, p) ==
  CASE gen = "simple" -> p[1] = 5
    [] gen = "diag"   -> p[1] = p[2]
    [] gen = "split"  -> p[1] = 2 \/ p[1] = 8
    [] gen = "xor"    -> p[1] = 5 \/ p[2] = 5
    [] gen = "circle" -> (p[1] - 5) * (p[1] - 5) + (p[2] - 5) * (p[2] - 5) = 10

\* C9: the labelling predicates are strict, so a point exactly on a decision
\* boundary gets label 0: simple x1 = 0.5; diag x1 = x2; split x1 = 0.2 or
\* 0.8; xor x1 = 0.5 or x2 = 0.5; circle at squared distance 0.1.
C9_BoundaryIsZero ==
  (SampledCall /\ Returned) =>
    \A i \in 1..Len(last.g.X) :
      OnBoundary(last.gen, last.g.X[i]) => last.g.y[i] = 0

C9_Witness ==
  /\ SampledCall /\ Returned /\ last.gen = "xor"
  /\ last.g.X = <<<<5, 2>>, <<8, 5>>>>
  /\ last.g.y = <<0, 0>>

\* C10: in every dataset of any of the six generators, for every N >= 0,
\* points and labels have the same length and the count field N equals it
\* (spiral with odd N included).
C10_CountIsLength ==
  (Returned /\ last.N >= 0) =>
    /\ Len(last.g.X) = Len(last.g.y)
    /\ last.g.N = Len(last.g.X)

====
